---- MODULE Spec2Model ----
(***************************************************************************)
(* The swarm orchestration of ai_playground: the planner node, the agent   *)
(* nodes (BaseAgent, ToolAgent, the guarded revisor) and the goto-driven   *)
(* dispatch between them, over the shared SwarmState.                      *)
(***************************************************************************)
EXTENDS Naturals, Sequences, FiniteSets

\* ------------------------------------------------------------ bounds
\* Longest agents_order list the planner's model writes into its JSON.
MaxPlan == 2
\* Longest content (in characters) an agent's model or executor returns.
MaxContentLen == 1
\* Nodes executed in one run before the model stops following it.
MaxSteps == 4
\* Longest agents_order an agent node is called with on its own.
MaxQueue == 3

\* ------------------------------------------------------------ names
PLANNER == "planner_agent"
END == "__end__"
WRITER == "writer_agent"
REVISOR == "revisor_agent"
\* A node registered as a ToolAgent instance.
TOOLER == "tool_agent"
\* A name the planner's model may invent; no node carries it.
GHOST == "ghost_agent"

\* The keys of base_agents: one graph node each.
base_agents == {WRITER, REVISOR, TOOLER}
\* Every node of the compiled graph.
Nodes == base_agents \cup {PLANNER}
\* The names the planner's model may put in a plan (it is not held to the catalog).
PlanNames == base_agents \cup {GHOST}

\* ------------------------------------------------------------ values
\* Python's None as an agent output (outputs are sequences of characters).
None == <<"<None>">>
Chars == {" ", "a"}

RECURSIVE SeqsUpTo(_, _)
SeqsUpTo(S, n) ==
    IF n = 0 THEN {<<>>}
    ELSE LET shorter == SeqsUpTo(S, n - 1)
         IN shorter \cup {Append(s, x) : s \in {t \in shorter : Len(t) = n - 1}, x \in S}

\* What a model handle's response.content, or executor.run, can hold.
ModelContents == SeqsUpTo(Chars, MaxContentLen)

\* Python truthiness of an output: None and "" are falsy.
Truthy(x) == x # None /\ x # <<>>

RECURSIVE lstrip(_)
lstrip(s) == IF s # <<>> /\ Head(s) = " " THEN lstrip(Tail(s)) ELSE s

RECURSIVE rstrip(_)
rstrip(s) ==
    IF s # <<>> /\ s[Len(s)] = " " THEN rstrip(SubSeq(s, 1, Len(s) - 1)) ELSE s

\* str.strip()
strip(s) == rstrip(lstrip(s))

\* ------------------------------------------------------------ dict
\* agent_responses is a Python dict: a sequence of (key, value) in insertion order.
DictKeys(d) == {d[i].k : i \in 1..Len(d)}

\* d.get(key): None when the key is absent.
DictGet(d, key) ==
    IF key \in DictKeys(d)
    THEN (CHOOSE e \in {d[i] : i \in 1..Len(d)} : e.k = key).v
    ELSE None

\* d[key] = value: an existing key keeps its place, a new one goes last.
DictSet(d, key, value) ==
    IF key \in DictKeys(d)
    THEN [i \in 1..Len(d) |-> IF d[i].k = key THEN [k |-> key, v |-> value] ELSE d[i]]
    ELSE Append(d, [k |-> key, v |-> value])

\* The keys in insertion order.
DictKeyOrder(d) == [i \in 1..Len(d) |-> d[i].k]

VARIABLES
    user_input,       \* SwarmState.user_input
    agents_order,     \* SwarmState.agents_order
    agent_responses,  \* SwarmState.agent_responses
    error,            \* SwarmState.error
    node,             \* the node to execute next: the last goto
    pc,               \* "running", "done", "raised" (an exception left the node), "no_node"
    trace,            \* the nodes executed so far, in order
    plan,             \* the list the planner last parsed, before its pop(0)
    last              \* what the latest step did

vars == <<user_input, agents_order, agent_responses, error, node, pc, trace, plan, last>>

USER_INPUT == "Create an email to schedule a meeting"

\* ------------------------------------------------------------ planner wire format
\* response.content of the planner's model, as a sequence of tokens: the fence
\* opener with its json label (three backticks and json), the bare fence (three
\* backticks), prose, and whole JSON documents.
Tok(t, key, names) == [t |-> t, key |-> key, plan |-> names]
FenceJson == Tok("fence_json", "", <<>>)
Fence == Tok("fence", "", <<>>)
Prose == Tok("text", "", <<>>)
\* {"agents_order": [n1, ...]}
ObjList(names) == Tok("object", "list", names)
\* {} : an object without the key
ObjAbsent == Tok("object", "absent", <<>>)
\* {"agents_order": "writer_agent"} : the key holds a non-empty string
ObjStr == Tok("object", "str", <<>>)
\* {"agents_order": null}
ObjNull == Tok("object", "null", <<>>)
\* ["writer_agent"] : a JSON document that is no object
Arr == Tok("array", "", <<>>)

Plans == SeqsUpTo(PlanNames, MaxPlan)
JsonDocs == {ObjList(p) : p \in Plans} \cup {ObjAbsent, ObjStr, ObjNull, Arr}

\* The documents tried in every wrapping below.
WrappedDocs == {ObjList(<<>>), ObjList(<<WRITER>>), ObjAbsent, ObjStr, Arr}

\* The contents the planner's model may answer with: every document raw and
\* in a json fenced block; some of them with prose around the block, the block
\* left open, prose before the raw document, a fence without the json label,
\* two blocks; and answers holding no document at all.
PlannerContents ==
    {<<>>, <<Prose>>, <<FenceJson, Prose, Fence>>, <<FenceJson, Fence>>}
    \cup UNION {{ <<d>>, <<FenceJson, d, Fence>> } : d \in JsonDocs}
    \cup UNION {{ <<Prose, FenceJson, d, Fence, Prose>>,
                  <<FenceJson, d>>,
                  <<Prose, d>>,
                  <<Fence, d, Fence>>,
                  <<FenceJson, d, FenceJson, d, Fence>> } : d \in WrappedDocs}

\* json.loads: the text is one JSON document, or JSONDecodeError.
json_loads(s) ==
    IF Len(s) = 1 /\ s[1].t \in {"object", "array"}
    THEN [ok |-> TRUE, val |-> s[1]]
    ELSE [ok |-> FALSE, val |-> Prose]

\* str.find of a token whose text starts with one of `texts`, from position
\* `from` on: its position, or 0 where Python gives -1.
find(s, texts, from) ==
    LET hits == {i \in from..Len(s) : s[i].t \in texts}
    IN IF hits = {} THEN 0 ELSE CHOOSE i \in hits : \A j \in hits : i <= j

\* planner_parse with the slice taken from json_start, the marker not skipped.
planner_parse_keeps_marker(content) ==
    LET direct == json_loads(content)
    IN IF direct.ok THEN [bound |-> TRUE, val |-> direct.val, via |-> "raw"]
       ELSE LET json_start == find(content, {"fence_json"}, 1)
                json_end == IF json_start = 0 THEN 0
                            ELSE find(content, {"fence_json", "fence"}, json_start + 1)
                inner == IF json_end = 0 THEN [ok |-> FALSE, val |-> Prose]
                         ELSE json_loads(SubSeq(content, json_start, json_end - 1))
            IN IF inner.ok THEN [bound |-> TRUE, val |-> inner.val, via |-> "fenced"]
               ELSE [bound |-> FALSE, val |-> Prose, via |-> "none"]

\* The try block of _planner_agent: [bound, val], bound = FALSE when an
\* exception was raised or json_response was left unassigned.
planner_parse(content) ==
    LET direct == json_loads(content)
    IN IF direct.ok THEN [bound |-> TRUE, val |-> direct.val, via |-> "raw"]
       ELSE LET json_start == find(content, {"fence_json"}, 1)
                json_end == IF json_start = 0 THEN 0
                            ELSE find(content, {"fence_json", "fence"}, json_start + 1)
                inner == IF json_end = 0 THEN [ok |-> FALSE, val |-> Prose]
                         ELSE json_loads(SubSeq(content, json_start + 1, json_end - 1))
            IN IF inner.ok THEN [bound |-> TRUE, val |-> inner.val, via |-> "fenced"]
               ELSE [bound |-> FALSE, val |-> Prose, via |-> "none"]

\* What the planner's model does: raises, or answers with a content.
PlannerResponses ==
    {[raised |-> TRUE, content |-> <<>>]}
    \cup {[raised |-> FALSE, content |-> c] : c \in PlannerContents}

\* The except branch of _planner_agent: error set, the run ended.
PlannerError(order) ==
    [out |-> "error", goto |-> END, order |-> order, err |-> TRUE,
     plan |-> <<>>, via |-> "none"]

\* Nothing planned: the run ended, the state untouched.
PlannerEnd(order, via) ==
    [out |-> "end", goto |-> END, order |-> order, err |-> FALSE,
     plan |-> <<>>, via |-> via]

\* agents_order.pop(0) on a value that is no list: the exception leaves the node.
PlannerRaise(order, via) ==
    [out |-> "raise", goto |-> PLANNER, order |-> order, err |-> FALSE,
     plan |-> <<>>, via |-> via]

\* The first planned name popped, the rest stored in state['agents_order'].
PlannerGoto(names, via) ==
    [out |-> "goto", goto |-> Head(names), order |-> Tail(names), err |-> FALSE,
     plan |-> names, via |-> via]

\* The try block raised: the model did, no JSON was found, or the JSON has no get.
PlanningFailed(resp, parsed) ==
    resp.raised \/ ~parsed.bound \/ parsed.val.t # "object"

\* `not agents_order`: the key absent (the default []), null, or an empty list.
NothingPlanned(val) ==
    val.key \in {"absent", "null"} \/ (val.key = "list" /\ val.plan = <<>>)

\* planner_result with the except branch going round to the planner again.
planner_result_error_retries(resp, order) ==
    LET parsed == planner_parse(resp.content)
    IN IF PlanningFailed(resp, parsed)
       THEN [PlannerError(order) EXCEPT !.goto = PLANNER]
       ELSE IF NothingPlanned(parsed.val) THEN PlannerEnd(order, parsed.via)
       ELSE IF parsed.val.key = "str" THEN PlannerRaise(order, parsed.via)
       ELSE PlannerGoto(parsed.val.plan, parsed.via)

\* planner_result with the except branch going on to the writer.
planner_result_error_runs_writer(resp, order) ==
    LET parsed == planner_parse(resp.content)
    IN IF PlanningFailed(resp, parsed)
       THEN [PlannerError(order) EXCEPT !.goto = WRITER]
       ELSE IF NothingPlanned(parsed.val) THEN PlannerEnd(order, parsed.via)
       ELSE IF parsed.val.key = "str" THEN PlannerRaise(order, parsed.via)
       ELSE PlannerGoto(parsed.val.plan, parsed.via)

\* planner_result with agents_order[0] read in place of agents_order.pop(0).
planner_result_no_pop(resp, order) ==
    LET parsed == planner_parse(resp.content)
    IN IF PlanningFailed(resp, parsed) THEN PlannerError(order)
       ELSE IF NothingPlanned(parsed.val) THEN PlannerEnd(order, parsed.via)
       ELSE IF parsed.val.key = "str" THEN PlannerRaise(order, parsed.via)
       ELSE [PlannerGoto(parsed.val.plan, parsed.via) EXCEPT !.order = parsed.val.plan]

\* planner_result with an empty plan taken for a planning failure.
planner_result_empty_is_error(resp, order) ==
    LET parsed == planner_parse(resp.content)
    IN IF PlanningFailed(resp, parsed) THEN PlannerError(order)
       ELSE IF NothingPlanned(parsed.val) THEN PlannerError(order)
       ELSE IF parsed.val.key = "str" THEN PlannerRaise(order, parsed.via)
       ELSE PlannerGoto(parsed.val.plan, parsed.via)

\* _planner_agent from the model's response to its Command:
\* out is "error" (except branch), "end" (nothing planned), "goto", or
\* "raise" (an exception leaves the node).
planner_result(resp, order) ==
    LET parsed == planner_parse(resp.content)
    IN IF PlanningFailed(resp, parsed) THEN PlannerError(order)
       ELSE IF NothingPlanned(parsed.val) THEN PlannerEnd(order, parsed.via)
       ELSE IF parsed.val.key = "str" THEN PlannerRaise(order, parsed.via)
       ELSE PlannerGoto(parsed.val.plan, parsed.via)

\* ------------------------------------------------------------ agents
\* What a model handle (or the agent executor) does with a prompt: raises, or
\* answers with a content.
ModelResponses ==
    {[raised |-> TRUE, content |-> <<>>]}
    \cup {[raised |-> FALSE, content |-> c] : c \in ModelContents}

\* The agent_responses keys each node's prompt template reads
\* ("{agent_responses[writer_agent]}"); every template reads user_input.
TemplateRefs(name) == IF name = REVISOR THEN {WRITER} ELSE {}

\* build_prompt with a formatter that leaves an absent key blank.
build_prompt_lenient(name, responses) == TRUE

\* BaseAgent.build_prompt: str.format raises KeyError on a key the state lacks.
build_prompt_ok(name, responses) == TemplateRefs(name) \subseteq DictKeys(responses)

\* BaseAgent.invoke_llm: the stripped content, None when anything raised.
invoke_llm(resp) == IF resp.raised THEN None ELSE strip(resp.content)

\* update_state with a new key put first instead of last.
update_state_new_key_first(responses, name, output) ==
    IF name \in DictKeys(responses) THEN DictSet(responses, name, output)
    ELSE <<[k |-> name, v |-> output]>> \o responses

\* BaseAgent.update_state
update_state(responses, name, output) == DictSet(responses, name, output)

\* determine_next with the queue consulted before the output.
determine_next_queue_first(order, output) ==
    IF order # <<>> THEN [goto |-> Head(order), order |-> Tail(order)]
    ELSE IF ~Truthy(output) THEN [goto |-> PLANNER, order |-> order]
    ELSE [goto |-> END, order |-> order]

\* determine_next with the fallback identifier mistyped.
determine_next_planner_typo(order, output) ==
    IF ~Truthy(output) THEN [goto |-> "planner", order |-> order]
    ELSE IF order # <<>> THEN [goto |-> Head(order), order |-> Tail(order)]
    ELSE [goto |-> END, order |-> order]

\* determine_next with pop() in place of pop(0).
determine_next_pop_last(order, output) ==
    IF ~Truthy(output) THEN [goto |-> PLANNER, order |-> order]
    ELSE IF order # <<>>
    THEN [goto |-> order[Len(order)], order |-> SubSeq(order, 1, Len(order) - 1)]
    ELSE [goto |-> END, order |-> order]

\* determine_next with the run ended on an empty output.
determine_next_empty_ends(order, output) ==
    IF ~Truthy(output) THEN [goto |-> END, order |-> order]
    ELSE IF order # <<>> THEN [goto |-> Head(order), order |-> Tail(order)]
    ELSE [goto |-> END, order |-> order]

\* BaseAgent.determine_next: the goto and agents_order after the call.
determine_next(order, output) ==
    IF ~Truthy(output) THEN [goto |-> PLANNER, order |-> order]
    ELSE IF order # <<>> THEN [goto |-> Head(order), order |-> Tail(order)]
    ELSE [goto |-> END, order |-> order]

\* The tail shared by BaseAgent.run and ToolAgent.run once the output is known.
finish_run(name, output, order, responses) ==
    LET nxt == determine_next(order, output)
    IN [out |-> "run", goto |-> nxt.goto, order |-> nxt.order,
        responses |-> update_state(responses, name, output),
        output |-> output, invoked |-> TRUE]

\* A node call that an exception leaves: the state is as it was.
raised_run(name, order, responses, invoked) ==
    [out |-> "raise", goto |-> name, order |-> order, responses |-> responses,
     output |-> None, invoked |-> invoked]

\* BaseAgent.run
BaseAgent_run(name, resp, order, responses) ==
    IF ~build_prompt_ok(name, responses)
    THEN raised_run(name, order, responses, FALSE)
    ELSE finish_run(name, invoke_llm(resp), order, responses)

\* ToolAgent.run: executor.run is called bare, its result is not stripped.
ToolAgent_run(name, resp, order, responses) ==
    IF ~build_prompt_ok(name, responses)
    THEN raised_run(name, order, responses, FALSE)
    ELSE IF resp.raised
    THEN raised_run(name, order, responses, TRUE)
    ELSE finish_run(name, resp.content, order, responses)

\* revisor_agent without its guard on the writer's response.
revisor_run_no_guard(resp, order, responses) ==
    BaseAgent_run(REVISOR, resp, order, responses)

\* ex_swarm.revisor_agent: the guard on the writer's response, then BaseAgent.run.
revisor_run(resp, order, responses) ==
    IF ~Truthy(DictGet(responses, WRITER))
    THEN [out |-> "guard", goto |-> PLANNER, order |-> order,
          responses |-> responses, output |-> None, invoked |-> FALSE]
    ELSE BaseAgent_run(REVISOR, resp, order, responses)

\* ------------------------------------------------------------ the graph
\* Where the compiled graph goes on a node's Command: END ends the run, a
\* registered name runs that node, any other name has no node.
Dispatch(out, goto) ==
    IF out = "raise" THEN "raised"
    ELSE IF goto = END THEN "done"
    ELSE IF goto \in Nodes THEN "running"
    ELSE "no_node"

\* What a step leaves on record: who ran, on which model response, from which
\* state, and how it came out.
Step(who, kind, resp, r, via) ==
    [who |-> who, kind |-> kind, resp |-> resp, out |-> r.out, output |-> r.output,
     invoked |-> r.invoked, pre_order |-> agents_order,
     pre_resp |-> agent_responses, pre_error |-> error, via |-> via]

NoStep ==
    [who |-> "START", kind |-> "init", resp |-> [raised |-> FALSE, content |-> <<>>],
     out |-> "init", output |-> None, invoked |-> FALSE, pre_order |-> <<>>,
     pre_resp |-> <<>>, pre_error |-> FALSE, via |-> "none"]

\* A graph whose entry edge leads to the writer instead of the planner.
Init_starts_at_writer ==
    /\ user_input = USER_INPUT
    /\ agents_order = <<>>
    /\ agent_responses = <<>>
    /\ error = FALSE
    /\ node = WRITER
    /\ pc = "running"
    /\ trace = <<>>
    /\ plan = <<>>
    /\ last = NoStep

\* main(): the input state, and START routed to the planner.
Init ==
    /\ user_input = USER_INPUT
    /\ agents_order = <<>>
    /\ agent_responses = <<>>
    /\ error = FALSE
    /\ node = PLANNER
    /\ pc = "running"
    /\ trace = <<>>
    /\ plan = <<>>
    /\ last = NoStep

\* The compiled graph runs the node the previous Command named.
Scheduled(name) == pc = "running" /\ node = name

Ready(name) == Scheduled(name) /\ Len(trace) < MaxSteps

\* An agent node's Command applied: update=state, goto.
AgentUpdate(name, resp, r) ==
    /\ agents_order' = r.order
    /\ agent_responses' = r.responses
    /\ node' = r.goto
    /\ pc' = Dispatch(r.out, r.goto)
    /\ last' = Step(name, "agent", resp, r, "none")
    /\ UNCHANGED <<user_input, error, plan>>

AgentCommand(name, resp, r) ==
    /\ AgentUpdate(name, resp, r)
    /\ trace' = Append(trace, name)

\* CustomSwarm._planner_agent as a node of the graph.
PlannerUpdate(resp) ==
    LET r == planner_result(resp, agents_order)
    IN /\ agents_order' = r.order
       /\ error' = (error \/ r.err)
       /\ node' = r.goto
       /\ pc' = Dispatch(r.out, r.goto)
       /\ plan' = IF r.out = "goto" THEN r.plan ELSE plan
       /\ last' = Step(PLANNER, "planner", resp,
                       [out |-> r.out, output |-> None, invoked |-> TRUE], r.via)
       /\ UNCHANGED <<user_input, agent_responses>>

planner_agent ==
    /\ Ready(PLANNER)
    /\ \E resp \in PlannerResponses :
         PlannerUpdate(resp) /\ trace' = Append(trace, PLANNER)

\* ex_swarm.writer_agent
writer_agent ==
    /\ Ready(WRITER)
    /\ \E resp \in ModelResponses :
         AgentCommand(WRITER, resp,
                      BaseAgent_run(WRITER, resp, agents_order, agent_responses))

\* ex_swarm.revisor_agent
revisor_agent ==
    /\ Ready(REVISOR)
    /\ \E resp \in ModelResponses :
         AgentCommand(REVISOR, resp, revisor_run(resp, agents_order, agent_responses))

\* A ToolAgent registered as a node.
tool_agent ==
    /\ Ready(TOOLER)
    /\ \E resp \in ModelResponses :
         AgentCommand(TOOLER, resp,
                      ToolAgent_run(TOOLER, resp, agents_order, agent_responses))

Next == planner_agent \/ writer_agent \/ revisor_agent \/ tool_agent

Spec == Init /\ [][Next]_vars

\* ------------------------------------------------------------ one agent call
\* An agent's run function called on its own, on any state a caller may pass:
\* any queue, the writer's response present or not.
CallResponses == {<<>>, <<[k |-> WRITER, v |-> <<"a">>]>>}

AgentInit ==
    /\ user_input = USER_INPUT
    /\ agents_order \in SeqsUpTo(PlanNames, MaxQueue)
    /\ agent_responses \in CallResponses
    /\ error = FALSE
    /\ node \in base_agents
    /\ pc = "running"
    /\ trace = <<>>
    /\ plan = <<>>
    /\ last = NoStep

AgentNext == writer_agent \/ revisor_agent \/ tool_agent

AgentSpec == AgentInit /\ [][AgentNext]_vars

\* ------------------------------------------------------------ the graph, unbounded
\* The same graph with no bound on the number of steps: graph.invoke runs the
\* scheduled node for as long as one is scheduled. The list of executed nodes
\* is not kept here, so that the states are finitely many.
\* The inputs of the unbounded graph: the planner's model raises, answers with
\* nothing, or answers with a raw document whose plan, if it has one, names
\* registered agents, none of them twice; an agent's model answers with at
\* most one character or raises.
OncePlans ==
    {p \in Plans : \A i \in 1..Len(p) :
                      p[i] \in base_agents /\ \A j \in 1..Len(p) : p[j] = p[i] => j = i}
RawResponses ==
    {r \in PlannerResponses :
        /\ Len(r.content) <= 1
        /\ \A i \in 1..Len(r.content) :
               r.content[i].key = "list" => r.content[i].plan \in OncePlans}
ShortResponses == {r \in ModelResponses : Len(r.content) <= 1}

planner_node ==
    /\ Scheduled(PLANNER)
    /\ \E resp \in RawResponses : PlannerUpdate(resp) /\ UNCHANGED trace

writer_node ==
    /\ Scheduled(WRITER)
    /\ \E resp \in ShortResponses :
         /\ AgentUpdate(WRITER, resp,
                        BaseAgent_run(WRITER, resp, agents_order, agent_responses))
         /\ UNCHANGED trace

revisor_node ==
    /\ Scheduled(REVISOR)
    /\ \E resp \in ShortResponses :
         /\ AgentUpdate(REVISOR, resp, revisor_run(resp, agents_order, agent_responses))
         /\ UNCHANGED trace

tool_node ==
    /\ Scheduled(TOOLER)
    /\ \E resp \in ShortResponses :
         /\ AgentUpdate(TOOLER, resp,
                        ToolAgent_run(TOOLER, resp, agents_order, agent_responses))
         /\ UNCHANGED trace

GraphNext == planner_node \/ writer_node \/ revisor_node \/ tool_node

GraphSpec == Init /\ [][GraphNext]_vars

\* ------------------------------------------------------------ BaseAgent.run alone
\* BaseAgent.run called on the agent object itself, without the node function
\* around it: the writer's and the revisor's BaseAgent, on any queue, the
\* writer's response present or not.
BaseAgents == {WRITER, REVISOR}

RunInit ==
    /\ user_input = USER_INPUT
    /\ agents_order \in SeqsUpTo(PlanNames, MaxQueue)
    /\ agent_responses \in CallResponses
    /\ error = FALSE
    /\ node \in BaseAgents
    /\ pc = "running"
    /\ trace = <<>>
    /\ plan = <<>>
    /\ last = NoStep

agent_run ==
    \E name \in BaseAgents :
        /\ Ready(name)
        /\ \E resp \in ModelResponses :
             AgentCommand(name, resp,
                          BaseAgent_run(name, resp, agents_order, agent_responses))

RunSpec == RunInit /\ [][agent_run]_vars

\* ------------------------------------------------------------ claims
\* The latest step was an agent's run that reached determine_next.
AgentRan == last.kind = "agent" /\ last.out = "run"

\* C1: whenever an agent's output for the turn is None or the empty string,
\* determine_next returns "planner_agent", whatever agents_order holds.
C1_EmptyOutputGoesToPlanner ==
    (AgentRan /\ last.output \in {None, <<>>}) => node = PLANNER

\* C1 happens: an empty output with two names still queued went to the planner.
C1_Witness ==
    /\ AgentRan
    /\ last.output = <<>>
    /\ Len(last.pre_order) >= 2
    /\ node = PLANNER

\* C2: with a non-empty queue and a non-empty output, determine_next returns the
\* queue's first element and leaves the rest of the queue in its order.
C2_PopIsFifo ==
    (AgentRan /\ last.output \notin {None, <<>>} /\ last.pre_order # <<>>)
        => /\ node = last.pre_order[1]
           /\ Len(agents_order) = Len(last.pre_order) - 1
           /\ \A i \in 1..Len(agents_order) : agents_order[i] = last.pre_order[i + 1]

\* C2 happens: a pop from a queue of three different names.
C2_Witness ==
    /\ AgentRan
    /\ last.output \notin {None, <<>>}
    /\ Len(last.pre_order) = 3
    /\ Cardinality({last.pre_order[i] : i \in 1..3}) = 3
    /\ node = last.pre_order[1]
    /\ agents_order = Tail(last.pre_order)

Range(q) == {q[i] : i \in 1..Len(q)}

\* C3 as claimed: the next-identifier Agent.run returns is a registered agent
\* name, the planner's identifier or TERMINAL, never a string from model output.
C3_NextIsRegistered == AgentRan => node \in base_agents \cup {PLANNER, END}

\* C3 as amended: the next-identifier Agent.run returns is the planner's
\* identifier, TERMINAL, or the head of agents_order, a name of the planner's
\* plan taken as the model wrote it; it is a node of the graph whenever the
\* plan names registered agents only.
C3_NextIsPlannerEndOrPlanned ==
    AgentRan =>
        /\ \/ node \in {PLANNER, END}
           \/ /\ last.pre_order # <<>>
              /\ node = last.pre_order[1]
              /\ node \in Range(plan)
        /\ Range(plan) \subseteq base_agents => node \in Nodes \cup {END}

\* C3 happens: an agent's run handed the graph a name no node carries.
C3_Witness ==
    /\ AgentRan
    /\ node = GHOST
    /\ last.pre_order = <<GHOST>>
    /\ pc = "no_node"

\* C4: a model or tool invocation failure in an agent's turn never leaves run
\* as an exception: the output is None, agent_responses[agent_name] is None and
\* run returns "planner_agent".
C4_InvocationFailureIsRouted ==
    (last.kind = "agent" /\ last.invoked /\ last.resp.raised)
        => /\ pc # "raised"
           /\ last.output = None
           /\ last.who \in DictKeys(agent_responses)
           /\ DictGet(agent_responses, last.who) = None
           /\ node = PLANNER

\* C5: every failure of a planner step ends the step with error = TRUE and
\* TERMINAL; no exception leaves the planner step.
C5_PlannerFailureIsTerminalError ==
    last.kind = "planner"
        => /\ pc # "raised"
           /\ last.out \in {"error", "raise"} => (error /\ node = END /\ pc = "done")

\* The latest step was a planner step whose model answered and whose answer
\* did not parse into an object.
ParseFailed == last.kind = "planner" /\ ~last.resp.raised /\ last.out = "error"

PlannerVisits == Cardinality({i \in 1..Len(trace) : trace[i] = PLANNER})

NoAgentExecuted == \A i \in 1..Len(trace) : trace[i] = PLANNER

\* C6 as claimed: whenever a planner step fails to parse the plan, reached by
\* fallback re-planning or not, the run ends with error = TRUE and no agent
\* node has executed at any point of the run.
C6_ParseFailureMeansNoAgentRan ==
    ParseFailed => (error /\ pc = "done" /\ NoAgentExecuted)

\* C6 as amended: a planner step that fails to parse the plan ends the run at
\* that step with error = TRUE, nothing executes after it and it changes
\* neither agents_order nor agent_responses; no agent node has executed in the
\* run when that step is the run's only planner step.
C6_ParseFailureEndsRun ==
    ParseFailed =>
        /\ error
        /\ pc = "done"
        /\ node = END
        /\ ~ENABLED Next
        /\ agents_order = last.pre_order
        /\ agent_responses = last.pre_resp
        /\ PlannerVisits = 1 => NoAgentExecuted

\* C6 happens: a re-planning step, after an agent fell back, failed to parse.
C6_Witness ==
    /\ ParseFailed
    /\ Len(trace) = 3
    /\ trace[2] \in base_agents
    /\ error
    /\ pc = "done"

\* C7: once error is TRUE the run has terminated and no node, agent or
\* planner, executes afterwards; no step is taken from a state with error.
C7_ErrorIsTerminal ==
    error => (pc = "done" /\ node = END /\ last.kind = "planner" /\ ~ENABLED Next)

\* C7 happens: error was set before the step bound was reached.
C7_Witness == error /\ pc = "done" /\ Len(trace) < MaxSteps

\* The content is the JSON document d, raw or inside a json fenced block.
Carries(content, d) == content = <<d>> \/ content = <<FenceJson, d, Fence>>

\* C8: a planner step that parses the non-empty plan [n1, ..., nk] returns n1
\* and sets agents_order to [n2, ..., nk], in that order.
C8_PlannerPopsFirst ==
    \A p \in Plans \ {<<>>} :
        (last.kind = "planner" /\ ~last.resp.raised
         /\ Carries(last.resp.content, ObjList(p)))
            => /\ node = p[1]
               /\ Len(agents_order) = Len(p) - 1
               /\ \A i \in 1..Len(agents_order) : agents_order[i] = p[i + 1]

\* C8 happens: the plan [writer_agent, revisor_agent] went to writer_agent and
\* left [revisor_agent].
C8_Witness ==
    /\ last.kind = "planner"
    /\ last.resp.content = <<ObjList(<<WRITER, REVISOR>>)>>
    /\ node = WRITER
    /\ agents_order = <<REVISOR>>

\* The latest step was a planner step whose model answered with an object,
\* raw or fenced, whose agents_order is empty or absent.
EmptyPlanStep ==
    /\ last.kind = "planner"
    /\ ~last.resp.raised
    /\ \E d \in {ObjList(<<>>), ObjAbsent} : Carries(last.resp.content, d)

\* C9: in a run started with agent_responses = {} and error = FALSE, a planner
\* answer that parses to an empty or absent agents_order ends the run at once:
\* no agent executed, agent_responses = {} and error = FALSE.
C9_EmptyPlanEndsRun ==
    (EmptyPlanStep /\ Len(trace) = 1)
        => /\ pc = "done"
           /\ node = END
           /\ ~ENABLED Next
           /\ NoAgentExecuted
           /\ agent_responses = <<>>
           /\ ~error

\* C9 happens: the fenced empty plan ended the run at its first step.
C9_Witness ==
    /\ EmptyPlanStep
    /\ last.resp.content = <<FenceJson, ObjList(<<>>), Fence>>
    /\ trace = <<PLANNER>>
    /\ pc = "done"

\* An agent node is executing: the graph is about to run it.
AgentExecuting == pc = "running" /\ node \in base_agents

\* C10 as claimed: while an agent node is executing, agents_order does not
\* contain that agent's own identifier.
C10_QueueExcludesCurrent == AgentExecuting => node \notin Range(agents_order)

NoDuplicates(q) == Cardinality(Range(q)) = Len(q)

\* C10 as amended: while an agent node is executing, agents_order does not
\* contain that agent's own identifier, provided the plan the planner last
\* parsed names no agent twice.
C10_QueueExcludesCurrentOfPlan ==
    (AgentExecuting /\ NoDuplicates(plan)) => node \notin Range(agents_order)

\* C10 happens: writer_agent executes with revisor_agent still queued.
C10_Witness ==
    /\ AgentExecuting
    /\ plan = <<WRITER, REVISOR>>
    /\ node = WRITER
    /\ agents_order = <<REVISOR>>

\* A node was executed in this step.
StepTaken == trace' # trace

\* This step is a planner step that ran state['agents_order'] = agents_order.
PlannerAssigns == StepTaken /\ last'.kind = "planner" /\ last'.out = "goto"

\* This step changed agents_order by removing its first element.
PopsFirst == agents_order # <<>> /\ agents_order' = Tail(agents_order)

\* C11 as claimed: within one run the planner assigns agents_order at most
\* once, and every other change to agents_order is an agent removing the
\* current first element.
C11_PlannerAssignsOnce ==
    [][/\ PlannerAssigns => plan = <<>>
       /\ (agents_order' # agents_order /\ ~PlannerAssigns) => PopsFirst]_vars

\* C11 as amended: the planner assigns agents_order at every planner step that
\* parses a non-empty plan, the run's first step and each step reached by a
\* fallback, to the plan without its first name; every other change to
\* agents_order is an agent removing the current first element and going to it.
C11_PlannerAssignsPerPlan ==
    [][StepTaken =>
        /\ PlannerAssigns => (agents_order' = Tail(plan') /\ node' = Head(plan'))
        /\ (PlannerAssigns /\ plan # <<>>) => (last.kind = "agent" /\ node = PLANNER)
        /\ (last'.kind = "planner" /\ ~PlannerAssigns) => agents_order' = agents_order
        /\ (last'.kind = "agent" /\ agents_order' # agents_order)
               => (PopsFirst /\ node' = Head(agents_order))]_vars

\* C11 happens: a planner step reached by fallback assigned agents_order again.
C11_Witness ==
    /\ last.kind = "planner"
    /\ last.out = "goto"
    /\ PlannerVisits = 2
    /\ trace[2] \in base_agents

\* The JSON objects the planner's model may write.
JsonObjects == {d \in JsonDocs : d.t = "object"}

\* The content holds the document d inside a json fenced block, alone or with
\* prose around the block.
Fenced(content, d) ==
    content = <<FenceJson, d, Fence>> \/ content = <<Prose, FenceJson, d, Fence, Prose>>

\* The latest step, a planner step, left the state and the next-identifier
\* that the same step would have left on the raw document d.
SameAsRaw(d) ==
    LET r == planner_result([raised |-> FALSE, content |-> <<d>>], last.pre_order)
    IN /\ last.out = r.out
       /\ node = r.goto
       /\ pc = Dispatch(r.out, r.goto)
       /\ agents_order = r.order
       /\ error = (last.pre_error \/ r.err)
       /\ agent_responses = last.pre_resp
       /\ user_input = USER_INPUT

\* C12: the planner parses the raw response first and the interior of a json
\* fenced block only when that fails; the same JSON object raw or fenced
\* yields the same state and the same next-identifier.
C12_FencedEqualsRaw ==
    (last.kind = "planner" /\ ~last.resp.raised) =>
        \A d \in JsonObjects :
            /\ last.resp.content = <<d>> => last.via = "raw"
            /\ Fenced(last.resp.content, d) => (last.via = "fenced" /\ SameAsRaw(d))

\* C12 happens: the fenced plan [writer_agent, revisor_agent] was read from
\* the block and went to writer_agent.
C12_Witness ==
    /\ last.kind = "planner"
    /\ last.resp.content = <<FenceJson, ObjList(<<WRITER, REVISOR>>), Fence>>
    /\ last.via = "fenced"
    /\ node = WRITER
    /\ agents_order = <<REVISOR>>

\* Every output written to agent_responses so far is non-empty.
AllTruthy(d) == \A i \in 1..Len(d) : Truthy(d[i].v)

\* The run planned [writer_agent, revisor_agent] at its only planner step and
\* no agent invocation so far returned an empty output or raised.
PipelineRun ==
    /\ plan = <<WRITER, REVISOR>>
    /\ PlannerVisits = 1
    /\ AllTruthy(agent_responses)
    /\ pc # "raised"

\* C13: a run that plans [writer_agent, revisor_agent] and whose agent
\* invocations return non-empty output ends after the two agents, with
\* agent_responses holding exactly the keys writer_agent and revisor_agent,
\* writer_agent written first.
C13_PipelineWritesBothInOrder ==
    PipelineRun =>
        /\ Len(trace) = 3 => pc = "done"
        /\ pc = "done" => /\ trace = <<PLANNER, WRITER, REVISOR>>
                          /\ DictKeyOrder(agent_responses) = <<WRITER, REVISOR>>
                          /\ node = END

\* C13 happens: the pipeline ran to its end.
C13_Witness ==
    /\ PipelineRun
    /\ pc = "done"
    /\ trace = <<PLANNER, WRITER, REVISOR>>
    /\ DictKeyOrder(agent_responses) = <<WRITER, REVISOR>>

\* The latest step was revisor_agent called on a state whose agent_responses
\* has no writer_agent entry, or a None or empty one.
RevisorWithoutWriter ==
    /\ last.kind = "agent"
    /\ last.who = REVISOR
    /\ DictGet(last.pre_resp, WRITER) \in {None, <<>>}

\* C14: revisor_agent run without a writer response returns "planner_agent"
\* without invoking its model and leaves agent_responses and agents_order as
\* they were.
C14_RevisorGuardFallsBack ==
    RevisorWithoutWriter =>
        /\ node = PLANNER
        /\ pc = "running"
        /\ ~last.invoked
        /\ agent_responses = last.pre_resp
        /\ agents_order = last.pre_order

\* C14 happens: the guard fell back with a name still queued and the writer's
\* entry present but None.
C14_Witness ==
    /\ RevisorWithoutWriter
    /\ WRITER \in DictKeys(last.pre_resp)
    /\ last.pre_order # <<>>
    /\ node = PLANNER
    /\ agents_order = last.pre_order

\* The planning of the response failed: the try block of the planner raised.
ResponseFailsPlanning(resp) == PlanningFailed(resp, planner_parse(resp.content))

\* C15: error changes only from FALSE to TRUE and only in a planner step
\* whose planning failed; no agent step, base, tool-augmented or the
\* revisor's guard, changes error.
C15_OnlyFailedPlanningSetsError ==
    [][/\ error' # error => /\ ~error /\ error'
                            /\ last'.kind = "planner"
                            /\ ResponseFailsPlanning(last'.resp)
       /\ (StepTaken /\ last'.kind = "agent") => error' = error]_vars

\* C15 happens: after agents had run, a planner step whose planning failed
\* set error.
C15_Witness ==
    /\ error
    /\ ~last.pre_error
    /\ last.kind = "planner"
    /\ ResponseFailsPlanning(last.resp)
    /\ \E i \in 1..Len(trace) : trace[i] \in base_agents

\* The latest step was an agent's turn in which its model or executor was invoked.
AgentTurn == last.kind = "agent" /\ last.invoked

\* The output of the latest turn: None when the invocation failed.
TurnOutput == IF last.resp.raised THEN None ELSE last.output

\* C16: an agent's run changes agent_responses only at its own key, which it
\* sets to the turn's output whatever that is (None when the invocation
\* failed, over any earlier value); every other entry and user_input stay,
\* and user_input is its initial value in every state.
C16_RunWritesOnlyOwnKey ==
    /\ user_input = USER_INPUT
    /\ AgentTurn =>
        /\ DictKeys(agent_responses) = DictKeys(last.pre_resp) \cup {last.who}
        /\ DictGet(agent_responses, last.who) = TurnOutput
        /\ \A k \in DictKeys(last.pre_resp) \ {last.who} :
               DictGet(agent_responses, k) = DictGet(last.pre_resp, k)

\* C17: every run starts at the planner, and no agent executes before a
\* planner step has returned its name, as the node to go to or in agents_order.
C17_PlannerRunsFirst ==
    /\ trace = <<>> => node = PLANNER
    /\ trace # <<>> => trace[1] = PLANNER
    /\ AgentExecuting => (PlannerVisits >= 1 /\ node \in Range(plan))
    /\ last.kind = "agent" => (last.who \in Range(plan) /\ PlannerVisits >= 1)

\* The planner ran, then the agent it named, and a later agent of the queue.
C17_Witness ==
    /\ Len(trace) >= 3
    /\ trace[1] = PLANNER
    /\ trace[2] \in base_agents
    /\ trace[3] \in base_agents
    /\ plan = <<trace[2], trace[3]>>

\* C18: nothing caps the steps of a run or guards against a cycle, so there is
\* an execution that never reaches END: wherever the planner is scheduled it
\* can plan any one registered agent, and wherever an agent is scheduled its
\* turn can come out empty and hand the run back to the planner, each time
\* leaving the run going. Alternating the two steps never ends.
C18_FallbackLoopNeverEnds ==
    /\ Scheduled(PLANNER) =>
           \A a \in base_agents :
               ENABLED (planner_node /\ pc' = "running" /\ node' = a /\ plan' = <<a>>)
    /\ \A a \in base_agents :
           Scheduled(a) =>
               ENABLED (GraphNext /\ pc' = "running" /\ node' = PLANNER
                        /\ ~Truthy(last'.output))

\* The loop's second round: the writer's turn came out empty, the planner
\* planned the writer again, and its turn came out empty again.
C18_Witness ==
    /\ Scheduled(PLANNER)
    /\ plan = <<WRITER>>
    /\ last.kind = "agent" /\ last.who = WRITER /\ ~Truthy(last.output)
    /\ WRITER \in DictKeys(last.pre_resp)
    /\ ~Truthy(DictGet(last.pre_resp, WRITER))

\* The latest step was a BaseAgent.run whose template reads a key of
\* agent_responses that the state did not hold.
MissingKeyRun ==
    /\ last.kind = "agent"
    /\ ~(TemplateRefs(last.who) \subseteq DictKeys(last.pre_resp))

\* C19: when the prompt template reads a key the state lacks, run fails at
\* build_prompt before anything else: the model is not invoked,
\* agent_responses is not written, agents_order is not popped, and the failure
\* is not turned into a fallback to the planner.
C19_MissingKeyFailsAtBuildPrompt ==
    MissingKeyRun =>
        /\ last.out = "raise" /\ pc = "raised"
        /\ ~last.invoked
        /\ agent_responses = last.pre_resp
        /\ agents_order = last.pre_order
        /\ node # PLANNER
        /\ ~error

\* The revisor's BaseAgent ran with a queue to pop and no writer response.
C19_Witness ==
    /\ MissingKeyRun
    /\ last.who = REVISOR
    /\ last.pre_order # <<>>
    /\ last.pre_resp = <<>>
    /\ pc = "raised"

\* The nodes that are a plain agent's run: the model is invoked on every turn.
PlainNodes == {WRITER, TOOLER}

\* The run so far: the planner ran once and planned plain nodes, and every
\* agent invocation returned a non-empty output.
HappyRun ==
    /\ PlannerVisits = 1
    /\ plan # <<>>
    /\ Range(plan) \subseteq PlainNodes
    /\ pc # "raised"
    /\ AllTruthy(agent_responses)

\* C20: when the planner's plan is [n1, ..., nk], registered plain agents, and
\* every invocation returns a non-empty output, the run ends after exactly k
\* agent steps, executed in the order n1, ..., nk, with the planner visited
\* exactly once, and ends with agents_order = [] and error = false.
C20_HappyPathRunsPlanInOrder ==
    HappyRun =>
        /\ Len(trace) <= Len(plan) + 1
        /\ trace = SubSeq(<<PLANNER>> \o plan, 1, Len(trace))
        /\ agents_order = SubSeq(plan, Len(trace) + 1, Len(plan))
        /\ Len(trace) = Len(plan) + 1 => (pc = "done" /\ agents_order = <<>> /\ ~error)
        /\ Len(trace) <= Len(plan) => (pc = "running" /\ node = plan[Len(trace)])

\* A plan of two plain agents ran to its end.
C20_Witness ==
    /\ HappyRun
    /\ pc = "done"
    /\ plan = <<WRITER, TOOLER>>
    /\ trace = <<PLANNER, WRITER, TOOLER>>
    /\ agents_order = <<>>

\* The run ended at END without the error flag.
NormalEnd == pc = "done" /\ ~error

\* C21: in a run started with agents_order = [], whenever the run reaches END
\* with error = false, agents_order is empty: no planned agent is left pending
\* in the returned state, re-planning after a fallback included.
C21_NoAgentPendingAtNormalEnd == NormalEnd => agents_order = <<>>

====
